---- MODULE Spec2Model ----
(***************************************************************************)
(* HT7017 energy-metering driver: the two tick functions                   *)
(* (HT7017_RunEverySecond, HT7017_RunQuick) over the shared driver state   *)
(* and the UART receive buffer.                                            *)
(*                                                                         *)
(* The repository holds two revisions of the state machine:                *)
(*   v3  src/src/driver/drv_ht7017.c (lines 1-309): g_waiting and the      *)
(*       g_readyToSend handshake;                                          *)
(*   v4  src/unnamed/part_003: no flags, RunEverySecond decodes a waiting  *)
(*       frame itself and counts a miss when fewer than 4 bytes wait.      *)
(* `version` says which revision is built; it is fixed at Init.            *)
(*                                                                         *)
(* A received byte is a record [v |-> 0..255, rq |-> n]: its value and the *)
(* number of the request frame the device was answering when it emitted    *)
(* the byte (0: an unsolicited byte).  rq is bookkeeping of the model; the *)
(* driver reads only v.                                                    *)
(*                                                                         *)
(* A measurement is a rational <<numerator, denominator>> in lowest terms  *)
(* (the C code holds a float; float rounding is not modelled).             *)
(***************************************************************************)
EXTENDS Integers, Sequences, FiniteSets, TLC

\* ------------------------------------------------------------------ bounds
MaxTicks == 4
MaxWire == 4
MaxRx == 5
MaxFaults == 1

\* --------------------------------------------------------------- constants
HT7017_FRAME_HEAD == 106
HT7017_RESPONSE_LEN == 4
HT7017_REG_RMS_I1 == 6
HT7017_REG_RMS_U == 8
HT7017_REG_FREQ == 9
HT7017_REG_POWER_P1 == 10
MAX_RETRIES == 3

\* Calibration scales as rationals <<num, den>>: 11015.3f, 1.0f, 1.0f, 100.0f
HT7017_VOLTAGE_SCALE == <<110153, 10>>
HT7017_CURRENT_SCALE == <<1, 1>>
HT7017_POWER_SCALE == <<1, 1>>
HT7017_FREQ_SCALE == <<100, 1>>

\* g_regTable[]; the C index i (0-based) is g_regTable[i + 1] here.
g_regTable ==
    << [reg |-> HT7017_REG_RMS_U,    scale |-> HT7017_VOLTAGE_SCALE, name |-> "Voltage(V)"],
       [reg |-> HT7017_REG_RMS_I1,   scale |-> HT7017_CURRENT_SCALE, name |-> "Current(A)"],
       [reg |-> HT7017_REG_POWER_P1, scale |-> HT7017_POWER_SCALE,   name |-> "Power(W)"],
       [reg |-> HT7017_REG_FREQ,     scale |-> HT7017_FREQ_SCALE,    name |-> "Freq(Hz)"] >>

REG_TABLE_SIZE == Len(g_regTable)

RegOf(idx) == g_regTable[idx + 1].reg

\* The raw 24-bit values (D2, D1, D0) the modelled device reports, and the value
\* of an unsolicited byte.
RawValues == { <<41, 16, 0>> }
NoiseBytes == { 0 }

VARIABLES
    version,        \* 3 or 4: the revision of the driver that is built
    g_regIndex,     \* index into g_regTable, 0-based
    g_waiting,      \* v3 only: 1 = waiting for a 4-byte response
    g_readyToSend,  \* v3 only: 1 = safe to send the next request
    g_missCount,    \* uint8_t: consecutive misses on the current register
    g_txCount,      \* uint32_t
    g_goodFrames,   \* uint32_t
    g_badFrames,    \* uint32_t
    meas,           \* g_voltage, g_current, g_power, g_freq by table index
    rx,             \* the UART receive ring buffer, oldest byte first
    uartTx,         \* every byte handed to UART_SendByte, in order
    wire,           \* bytes the device has emitted that the UART has not received yet
    pending,        \* the device has not yet reacted to the latest request frame
    faults,         \* corrupted frames, lost bytes and unsolicited bytes so far
    ticks,          \* number of HT7017_RunEverySecond invocations so far
    resolved,       \* HT7017_RunQuick has decoded a frame since the latest request frame
    discarded,      \* bytes the latest HT7017_RunEverySecond threw away undecoded
    quickUsed,      \* HT7017_RunQuick has been invoked at least once
    quickAvail,     \* `available` in HT7017_RunQuick, if that is what ran last (else -1)
    envOK           \* so far the device answered every request with a valid frame,
                    \* fully received before the next tick, and sent nothing else

vars == << version, g_regIndex, g_waiting, g_readyToSend, g_missCount, g_txCount,
           g_goodFrames, g_badFrames, meas, rx, uartTx, wire, pending, faults,
           ticks, resolved, discarded, quickUsed, quickAvail, envOK >>

driverVars == << g_regIndex, g_waiting, g_readyToSend, g_missCount, g_txCount,
                 g_goodFrames, g_badFrames, meas >>

\* ------------------------------------------------------- integer widths
\* g_missCount is a uint8_t.  The uint32_t counters grow by at most 2 per tick and
\* stay far below 2^32 within MaxTicks, so their wrap-around is not modelled.
U8(x) == x % 256

\* ---------------------------------------------------- rational helpers
RECURSIVE Gcd(_, _)
Gcd(a, b) == IF b = 0 THEN a ELSE Gcd(b, a % b)

Rat(n, d) == LET g == Gcd(n, d) IN IF g = 0 THEN <<0, 1>> ELSE <<n \div g, d \div g>>

\* ----------------------------------------------- UART collaborator (drv_uart)
UART_GetDataSize(buf) == Len(buf)
UART_GetByte(buf, i) == buf[i + 1].v
UART_ConsumeBytes(buf, n) == SubSeq(buf, n + 1, Len(buf))

\* ------------------------------------------------------ internal helpers
\* Faulty variant, for comparison: the frame header is left out of the sum.
HT7017_CalcChecksum_NoHead(reg, d2, d1, d0) ==
    LET sum == U8(reg + d2 + d1 + d0)
    IN  255 - sum

HT7017_CalcChecksum(reg, d2, d1, d0) ==
    LET sum == U8(HT7017_FRAME_HEAD + reg + d2 + d1 + d0)
    IN  255 - sum

\* Faulty variant, for comparison: the bytes are taken least significant first.
RawOf_LittleEndian(d2, d1, d0) == d0 * 65536 + d1 * 256 + d2

\* raw = (d2 << 16) | (d1 << 8) | d0
RawOf(d2, d1, d0) == d2 * 65536 + d1 * 256 + d0

\* value = (float)raw / g_regTable[idx].scale
ScaledValue(raw, idx) ==
    LET s == g_regTable[idx + 1].scale IN Rat(raw * s[2], s[1])

\* The four bytes peeked at the head of the buffer.
PeekD2(buf) == UART_GetByte(buf, 0)
PeekD1(buf) == UART_GetByte(buf, 1)
PeekD0(buf) == UART_GetByte(buf, 2)
PeekCS(buf) == UART_GetByte(buf, 3)

\* Faulty variant, for comparison: the checksum comparison is dropped.
ChecksumOK_AnyFrame(buf, idx) == TRUE

\* Faulty variant, for comparison: the top bit of the checksum is not compared.
ChecksumOK_Low7(buf, idx) ==
    PeekCS(buf) % 128 =
       HT7017_CalcChecksum(RegOf(idx), PeekD2(buf), PeekD1(buf), PeekD0(buf)) % 128

\* Faulty variant, for comparison: the checksum of any table register will do.
ChecksumOK_AnyRegister(buf, idx) ==
    \E i \in 0 .. 3 :
       PeekCS(buf) = HT7017_CalcChecksum(RegOf(i), PeekD2(buf), PeekD1(buf), PeekD0(buf))

\* cs == expected, for the register at idx
ChecksumOK(buf, idx) ==
    PeekCS(buf) = HT7017_CalcChecksum(RegOf(idx), PeekD2(buf), PeekD1(buf), PeekD0(buf))

\* Faulty variant, for comparison: the value lands in the next register's slot.
StoreValue_NextSlot(m, buf, idx) ==
    [m EXCEPT ![(idx + 1) % 4] = ScaledValue(RawOf(PeekD2(buf), PeekD1(buf), PeekD0(buf)), idx)]

\* *g_regTable[idx].target = value
StoreValue(m, buf, idx) ==
    [m EXCEPT ![idx] = ScaledValue(RawOf(PeekD2(buf), PeekD1(buf), PeekD0(buf)), idx)]

\* The decode of the 4 bytes at the head of buf while idx is current: the
\* measurements, g_goodFrames and g_badFrames it leaves.
\* Faulty variant, for comparison: the value is stored before the checksum is looked at.
DecodeMeas_StoreFirst(m, buf, idx) == StoreValue(m, buf, idx)

\* Faulty variant, for comparison: an accepted frame's value is not stored.
DecodeMeas_NoStore(m, buf, idx) == m

DecodeMeas(m, buf, idx) == IF ChecksumOK(buf, idx) THEN StoreValue(m, buf, idx) ELSE m
DecodeGood(n, buf, idx) == IF ChecksumOK(buf, idx) THEN n + 1 ELSE n
DecodeBad(n, buf, idx) == IF ChecksumOK(buf, idx) THEN n ELSE n + 1

\* Faulty variant, for comparison: the request is sent without flushing the receive buffer.
SendRequest_rx_NoFlush(buf) == buf

\* HT7017_SendRequest: what is left in the receive buffer, and what is sent.
SendRequest_rx(buf) == UART_ConsumeBytes(buf, UART_GetDataSize(buf))
\* Faulty variant, for comparison: the address goes out with bit 7 set.
SendRequest_tx_WriteBit(out, reg) == out \o << HT7017_FRAME_HEAD, reg + 128 >>

SendRequest_tx(out, reg) == out \o << HT7017_FRAME_HEAD, reg >>
SendRequest_count(n) == n + 2

\* Faulty variant, for comparison: the decode throws the whole buffer away.
ConsumeFrame_All(buf) == UART_ConsumeBytes(buf, UART_GetDataSize(buf))

\* UART_ConsumeBytes(HT7017_RESPONSE_LEN), after the 4 bytes were read
ConsumeFrame(buf) == UART_ConsumeBytes(buf, HT7017_RESPONSE_LEN)

\* Faulty variant, for comparison: RunQuick drops a partial frame.
ReturnEarly_Flush(buf) == UART_ConsumeBytes(buf, UART_GetDataSize(buf))

\* `return` of HT7017_RunQuick before anything is read: the buffer is left alone
ReturnEarly(buf) == buf

\* Faulty variant, for comparison: the decode leaves g_waiting as it was.
ClearWaiting_Kept(w) == w

\* g_waiting = 0 in HT7017_RunQuick (v3)
ClearWaiting(w) == 0

\* Faulty variant, for comparison: the index wraps to the second entry.
NextIndex_WrapToOne(idx) == IF idx + 1 >= REG_TABLE_SIZE THEN 1 ELSE idx + 1

NextIndex(idx) == (idx + 1) % REG_TABLE_SIZE

\* Number of request frames sent so far, and the register of the k-th.
NumReq == Len(uartTx) \div 2
ReqReg(k) == uartTx[2 * k]

\* ------------------------------------------------------------------- Init
\* The state HT7017_Init leaves.
Init ==
    /\ version \in {3, 4}
    /\ g_regIndex = REG_TABLE_SIZE - 1
    /\ g_waiting = 0
    /\ g_readyToSend = 1
    /\ g_missCount = 0
    /\ g_txCount = 0
    /\ g_goodFrames = 0
    /\ g_badFrames = 0
    /\ meas = [i \in 0 .. REG_TABLE_SIZE - 1 |-> <<0, 1>>]
    /\ rx = << >>
    /\ uartTx = << >>
    /\ wire = << >>
    /\ pending = FALSE
    /\ faults = 0
    /\ ticks = 0
    /\ resolved = FALSE
    /\ discarded = 0
    /\ quickUsed = FALSE
    /\ quickAvail = -1
    /\ envOK = TRUE

\* A tick keeps envOK only if the answer to the latest request is fully received.
EnvAtTick == envOK /\ (NumReq > 0 => (~pending /\ wire = << >>))

\* ----------------------------------------------------- retry bookkeeping
\* After g_missCount++ gave `miss`: give up on the register at MAX_RETRIES.
MissIndex(idx, miss) == IF miss >= MAX_RETRIES THEN NextIndex(idx) ELSE idx
\* Faulty variant, for comparison: giving up does not reset the count.
MissCount_NoReset(miss) == miss

MissCount(miss) == IF miss >= MAX_RETRIES THEN 0 ELSE miss

\* --------------------------------------------------- v3: drv_ht7017.c
\* Faulty variant, for comparison: the tick never waits for RunQuick.
Blocked_Never(ready) == FALSE

\* if (!g_readyToSend): the tick returns without sending
Blocked(ready) == ready = 0

\* The part of HT7017_RunEverySecond after the g_readyToSend guard.
V3_Schedule ==
    LET miss == U8(g_missCount + 1)
        idx  == IF g_waiting = 1 THEN MissIndex(g_regIndex, miss) ELSE NextIndex(g_regIndex)
        flushed == IF g_waiting = 1 THEN UART_ConsumeBytes(rx, UART_GetDataSize(rx)) ELSE rx
    IN  /\ g_regIndex' = idx
        /\ g_missCount' = IF g_waiting = 1 THEN MissCount(miss) ELSE 0
        /\ rx' = SendRequest_rx(flushed)
        /\ discarded' = Len(rx) - Len(rx')
        /\ uartTx' = SendRequest_tx(uartTx, RegOf(idx))
        /\ g_txCount' = SendRequest_count(g_txCount)
        /\ g_waiting' = 1
        /\ g_readyToSend' = 0
        /\ pending' = TRUE
        /\ resolved' = FALSE
        /\ UNCHANGED << g_goodFrames, g_badFrames, meas >>

V3_RunEverySecond ==
    /\ version = 3
    /\ ticks < MaxTicks
    /\ ticks' = ticks + 1
    /\ envOK' = EnvAtTick
    /\ IF Blocked(g_readyToSend)
         THEN /\ discarded' = 0
              /\ UNCHANGED << driverVars, rx, uartTx, pending, resolved >>
         ELSE V3_Schedule
    /\ quickAvail' = -1
    /\ UNCHANGED << version, wire, faults, quickUsed >>

V3_RunQuick ==
    /\ version = 3
    /\ quickUsed' = TRUE
    /\ quickAvail' = UART_GetDataSize(rx)
    /\ IF g_waiting = 0 \/ UART_GetDataSize(rx) < HT7017_RESPONSE_LEN
         THEN /\ rx' = ReturnEarly(rx)
              /\ UNCHANGED << driverVars, resolved >>
         ELSE /\ rx' = ConsumeFrame(rx)
              /\ g_waiting' = ClearWaiting(g_waiting)
              /\ g_readyToSend' = 1
              /\ resolved' = TRUE
              /\ meas' = DecodeMeas(meas, rx, g_regIndex)
              /\ g_goodFrames' = DecodeGood(g_goodFrames, rx, g_regIndex)
              /\ g_badFrames' = DecodeBad(g_badFrames, rx, g_regIndex)
              /\ g_missCount' = IF ChecksumOK(rx, g_regIndex) THEN 0 ELSE g_missCount
              /\ UNCHANGED << g_regIndex, g_txCount >>
    /\ UNCHANGED << version, uartTx, wire, pending, faults, ticks, discarded, envOK >>

\* --------------------------------------------------- v4: unnamed/part_003
V4_RunEverySecond ==
    /\ version = 4
    /\ ticks < MaxTicks
    /\ ticks' = ticks + 1
    /\ envOK' = EnvAtTick
    /\ IF UART_GetDataSize(rx) >= HT7017_RESPONSE_LEN
         THEN \* a response is waiting: decode it here, then advance
              /\ meas' = DecodeMeas(meas, rx, g_regIndex)
              /\ g_goodFrames' = DecodeGood(g_goodFrames, rx, g_regIndex)
              /\ g_badFrames' = DecodeBad(g_badFrames, rx, g_regIndex)
              /\ g_regIndex' = NextIndex(g_regIndex)
              /\ g_missCount' = 0
              /\ rx' = SendRequest_rx(ConsumeFrame(rx))
              /\ discarded' = Len(rx) - HT7017_RESPONSE_LEN - Len(rx')
              /\ uartTx' = SendRequest_tx(uartTx, RegOf(NextIndex(g_regIndex)))
         ELSE \* no response arrived: a miss
              LET miss == U8(g_missCount + 1)
                  idx  == MissIndex(g_regIndex, miss)
              IN  /\ g_regIndex' = idx
                  /\ g_missCount' = MissCount(miss)
                  /\ rx' = SendRequest_rx(UART_ConsumeBytes(rx, UART_GetDataSize(rx)))
                  /\ discarded' = Len(rx) - Len(rx')
                  /\ uartTx' = SendRequest_tx(uartTx, RegOf(idx))
                  /\ UNCHANGED << meas, g_goodFrames, g_badFrames >>
    /\ g_txCount' = SendRequest_count(g_txCount)
    /\ pending' = TRUE
    /\ resolved' = FALSE
    /\ quickAvail' = -1
    /\ UNCHANGED << version, g_waiting, g_readyToSend, wire, faults, quickUsed >>

V4_RunQuick ==
    /\ version = 4
    /\ quickUsed' = TRUE
    /\ quickAvail' = UART_GetDataSize(rx)
    /\ IF UART_GetDataSize(rx) < HT7017_RESPONSE_LEN
         THEN /\ rx' = ReturnEarly(rx)
              /\ UNCHANGED << driverVars, resolved >>
         ELSE /\ rx' = ConsumeFrame(rx)
              /\ resolved' = TRUE
              /\ meas' = DecodeMeas(meas, rx, g_regIndex)
              /\ g_goodFrames' = DecodeGood(g_goodFrames, rx, g_regIndex)
              /\ g_badFrames' = DecodeBad(g_badFrames, rx, g_regIndex)
              /\ g_missCount' = IF ChecksumOK(rx, g_regIndex) THEN 0 ELSE g_missCount
              /\ UNCHANGED << g_regIndex, g_txCount, g_waiting, g_readyToSend >>
    /\ UNCHANGED << version, uartTx, wire, pending, faults, ticks, discarded, envOK >>

\* ------------------------------------------------------------ the device
\* The 4-byte answer to request number k for register reg: D2 D1 D0 CHECKSUM.
ResponseFrame(reg, raw, k, good) ==
    LET cs == HT7017_CalcChecksum(reg, raw[1], raw[2], raw[3])
    IN  << [v |-> raw[1], rq |-> k], [v |-> raw[2], rq |-> k], [v |-> raw[3], rq |-> k],
           [v |-> IF good THEN cs ELSE U8(cs + 1), rq |-> k] >>

\* The device answers the latest request frame, with a valid or a corrupted frame.
DeviceRespond ==
    /\ pending
    /\ Len(wire) + HT7017_RESPONSE_LEN <= MaxWire
    /\ \E raw \in RawValues, good \in BOOLEAN :
          /\ ~good => faults < MaxFaults
          /\ wire' = wire \o ResponseFrame(ReqReg(NumReq), raw, NumReq, good)
          /\ faults' = IF good THEN faults ELSE faults + 1
          /\ envOK' = (envOK /\ good)
    /\ pending' = FALSE
    /\ quickAvail' = -1
    /\ UNCHANGED << version, driverVars, rx, uartTx, ticks, resolved, discarded, quickUsed >>

\* The UART receives the next byte on the line.
Deliver ==
    /\ wire # << >>
    /\ Len(rx) < MaxRx
    /\ rx' = Append(rx, Head(wire))
    /\ wire' = Tail(wire)
    /\ quickAvail' = -1
    /\ UNCHANGED << version, driverVars, uartTx, pending, faults, ticks, resolved,
                    discarded, quickUsed, envOK >>

\* A byte on the line is lost (a truncated frame).
LoseByte ==
    /\ wire # << >>
    /\ faults < MaxFaults
    /\ wire' = Tail(wire)
    /\ faults' = faults + 1
    /\ envOK' = FALSE
    /\ quickAvail' = -1
    /\ UNCHANGED << version, driverVars, rx, uartTx, pending, ticks, resolved, discarded, quickUsed >>

\* An unsolicited byte appears on the line.
Noise ==
    /\ faults < MaxFaults
    /\ Len(wire) < MaxWire
    /\ \E b \in NoiseBytes : wire' = Append(wire, [v |-> b, rq |-> 0])
    /\ faults' = faults + 1
    /\ envOK' = FALSE
    /\ quickAvail' = -1
    /\ UNCHANGED << version, driverVars, rx, uartTx, pending, ticks, resolved, discarded, quickUsed >>

Next ==
    \/ V3_RunEverySecond
    \/ V3_RunQuick
    \/ V4_RunEverySecond
    \/ V4_RunQuick
    \/ DeviceRespond
    \/ Deliver
    \/ LoseByte
    \/ Noise

Spec == Init /\ [][Next]_vars

TypeOK ==
    /\ version \in {3, 4}
    /\ g_regIndex \in 0 .. 255
    /\ g_waiting \in {0, 1}
    /\ g_readyToSend \in {0, 1}
    /\ g_missCount \in 0 .. 255
    /\ quickAvail \in -1 .. MaxRx
    /\ Len(uartTx) = 2 * NumReq
    /\ Len(rx) <= MaxRx
    /\ Len(wire) <= MaxWire

\* ------------------------------------------------------------ vocabulary
\* This step is an invocation of HT7017_RunEverySecond.
TickStep == ticks' = ticks + 1

\* This step transmits a request frame for register address reg.
SendsRequestFor(reg) == uartTx' = uartTx \o << HT7017_FRAME_HEAD, reg >>

\* This step transmits a request frame.
SendsRequest == Len(uartTx') = Len(uartTx) + 2

\* This step decodes the 4 bytes at the head of the receive buffer.
DecodeStep == g_goodFrames' + g_badFrames' = g_goodFrames + g_badFrames + 1

\* The latest request has no complete response: nothing decoded it and fewer
\* than 4 bytes are buffered.
Unresolved == NumReq > 0 /\ ~resolved /\ Len(rx) < HT7017_RESPONSE_LEN

\* The table index of register address reg.
IndexOf(reg) == CHOOSE i \in 0 .. REG_TABLE_SIZE - 1 : RegOf(i) = reg

Zero == <<0, 1>>

\* ---------------------------------------------------------------- claims

\* C1: a request that never receives a response does not block the driver:
\* a tick that finds the latest request unanswered (nothing decoded, nothing
\* buffered, nothing on the line) still transmits a request frame.
C1_KeepsTransmitting ==
    [][(TickStep /\ NumReq > 0 /\ ~resolved /\ rx = << >> /\ wire = << >>)
          => SendsRequest]_vars

\* C2: with RunQuick never invoked and every request answered by a valid frame
\* received before the next tick, RunEverySecond alone resolves each response:
\* after n >= 1 ticks, n - 1 good frames have been counted.
C2_FallbackResolves ==
    (~quickUsed /\ envOK /\ ticks >= 1) => g_goodFrames = ticks - 1

\* C3: retry policy, tick by tick: a tick that finds the request unresolved
\* re-sends the request for the same register and keeps the index while fewer
\* than MAX_RETRIES - 1 misses are counted, and on the MAX_RETRIES-th miss
\* advances the index by one, resets the miss count and requests the next register.
C3_RetryPolicy ==
    [][(TickStep /\ Unresolved) =>
          IF g_missCount < MAX_RETRIES - 1
            THEN /\ g_regIndex' = g_regIndex
                 /\ SendsRequestFor(RegOf(g_regIndex))
            ELSE /\ g_regIndex' = NextIndex(g_regIndex)
                 /\ g_missCount' = 0
                 /\ SendsRequestFor(RegOf(NextIndex(g_regIndex)))]_vars

\* C4: once RunQuick has decoded (accepted or rejected) the response to the
\* outstanding request, the next tick advances the index by one, resets the miss
\* count and requests that next register.
C4_AdvanceAfterResolve ==
    [][(TickStep /\ NumReq > 0 /\ resolved) =>
          /\ g_regIndex' = NextIndex(g_regIndex)
          /\ g_missCount' = 0
          /\ SendsRequestFor(RegOf(NextIndex(g_regIndex)))]_vars

\* C5: for a device that answers every request with a valid frame before the
\* next tick, one request is sent per tick and each request is for the table
\* entry after the previous one, whether or not RunQuick runs.
C5_RotationIndependent ==
    envOK => /\ NumReq = ticks
             /\ \A k \in 2 .. NumReq :
                   ReqReg(k) = RegOf(NextIndex(IndexOf(ReqReg(k - 1))))

\* C6: nothing is retried indefinitely: no 4 consecutive request frames are
\* for the same register.
C6_BoundedRetries ==
    \A k \in 1 .. NumReq - MAX_RETRIES :
       ~(\A j \in 1 .. MAX_RETRIES : ReqReg(k + j) = ReqReg(k))

\* C7: a decoded 4-byte group never holds bytes of two different responses.
C7_NoMixedFrame ==
    [][DecodeStep =>
          \A j, k \in 1 .. HT7017_RESPONSE_LEN :
             (rx[j].rq # 0 /\ rx[k].rq # 0) => rx[j].rq = rx[k].rq]_vars

\* C8: when a request frame is transmitted the receive buffer is empty: the
\* step that sends it leaves no byte that was buffered before it.
C8_FlushBeforeSend ==
    [][SendsRequest => rx' = << >>]_vars

\* C8 witness: a request has been sent by a tick that threw buffered bytes away.
C8_Witness == NumReq > 0 /\ discarded > 0 /\ rx = << >>

\* C9: a measurement changes or g_goodFrames grows only in a step that decodes
\* 4 bytes whose fourth equals 255 - ((0x6A + address of the current register +
\* D2 + D1 + D0) mod 256); g_goodFrames grows by one and only the measurement
\* of that register may change.
C9_AcceptOnlyValid ==
    [][(meas' # meas \/ g_goodFrames' # g_goodFrames) =>
          /\ Len(rx) >= 4
          /\ rx[4].v = 255 - ((106 + RegOf(g_regIndex) + rx[1].v + rx[2].v + rx[3].v) % 256)
          /\ g_goodFrames' = g_goodFrames + 1
          /\ \A i \in 0 .. REG_TABLE_SIZE - 1 : i # g_regIndex => meas'[i] = meas[i]]_vars

\* C9 witness: frames have been accepted and frames have been rejected.
C9_Witness == g_goodFrames > 0 /\ g_badFrames > 0 /\ \E i \in 0 .. 3 : meas[i] # Zero

\* The failure paths: a checksum mismatch, a miss (retry or abandon), and a
\* step that throws bytes away without accepting a frame.
MismatchStep == g_badFrames' = g_badFrames + 1
MissStep == TickStep /\ Unresolved /\ ~DecodeStep
DiscardStep == Len(rx') < Len(rx) /\ g_goodFrames' = g_goodFrames

\* C10: no failure path changes a measurement.
C10_FailureKeepsMeasurements ==
    [][(MismatchStep \/ MissStep \/ DiscardStep) => meas' = meas]_vars

\* C10 witness: a measurement holds a value after a frame has been rejected, a
\* miss has been counted and a tick has thrown bytes away.
C10_Witness ==
    /\ g_badFrames > 0
    /\ g_missCount > 0
    /\ discarded > 0
    /\ \E i \in 0 .. 3 : meas[i] # Zero

\* ------------------------------------------------- the Collector (RunQuick)
\* This step is an invocation of HT7017_RunQuick.
QuickStep == quickAvail' # -1

\* This step is an invocation of HT7017_RunQuick that decodes 4 bytes.
QuickDecodeStep == QuickStep /\ DecodeStep

\* RunQuick left the driver's state and the receive buffer as they were.
QuickNoOp == UNCHANGED << driverVars, rx >>

\* The checksum a frame D2 D1 D0 for the current register must carry, written
\* out from the protocol: the complement of the low byte of the sum.
ExpectedCS(b0, b1, b2) == 255 - ((106 + RegOf(g_regIndex) + b0 + b1 + b2) % 256)

\* C11: while no request is outstanding (none sent yet, or the latest one
\* already resolved by a decode), an invocation of RunQuick consumes no byte
\* and changes no counter, measurement, miss count or index, whatever is buffered.
C11_IdleQuickNoOp ==
    [][(QuickStep /\ (NumReq = 0 \/ resolved)) => QuickNoOp]_vars

\* C12: a RunQuick decode with n >= 4 buffered bytes b0..b(n-1) judges the
\* frame by (b0, b1, b2, b3) = (D2, D1, D0, CHECKSUM), stores the value made of
\* b0, b1, b2 when it accepts, and leaves exactly b4..b(n-1) in the buffer.
C12_ReadThenConsume ==
    [][QuickDecodeStep =>
          /\ Len(rx) >= HT7017_RESPONSE_LEN
          /\ rx' = SubSeq(rx, HT7017_RESPONSE_LEN + 1, Len(rx))
          /\ (g_goodFrames' = g_goodFrames + 1) <=>
                (rx[4].v = ExpectedCS(rx[1].v, rx[2].v, rx[3].v))
          /\ (g_goodFrames' = g_goodFrames + 1) =>
                meas'[g_regIndex] =
                   ScaledValue(rx[1].v * 65536 + rx[2].v * 256 + rx[3].v, g_regIndex)]_vars

\* C12 witness: RunQuick has just accepted a frame out of more than 4 buffered
\* bytes, and the bytes behind the frame are still buffered.
C12_Witness ==
    /\ quickAvail > HT7017_RESPONSE_LEN
    /\ resolved
    /\ g_goodFrames > 0
    /\ Len(rx) = quickAvail - HT7017_RESPONSE_LEN

\* C13: with fewer than 4 bytes buffered, an invocation of RunQuick consumes
\* nothing and changes no state of the driver: the partial frame, g_waiting,
\* the counters, the miss count, the index and the measurements stay.
C13_PartialFrameNoOp ==
    [][(QuickStep /\ Len(rx) < HT7017_RESPONSE_LEN) => QuickNoOp]_vars

\* C13 witness: RunQuick has just run on a partial frame of an outstanding
\* request, and the partial frame is still buffered.
C13_Witness ==
    /\ quickAvail \in 1 .. HT7017_RESPONSE_LEN - 1
    /\ Len(rx) = quickAvail
    /\ NumReq > 0
    /\ ~resolved

\* The 4 bytes at the head of the buffer carry the checksum of the current register.
HeadValid == rx[4].v = ExpectedCS(rx[1].v, rx[2].v, rx[3].v)

\* The value raw / scale of the frame at the head of the buffer.
HeadValue == ScaledValue(rx[1].v * 65536 + rx[2].v * 256 + rx[3].v, g_regIndex)

\* C14: a RunQuick decode of a checksum-valid frame stores raw/scale into the
\* measurement of the current register and into no other, adds exactly one to
\* g_goodFrames, sets g_missCount to 0 and clears g_waiting (v3; v4 keeps no
\* such flag), and leaves g_badFrames, g_txCount and g_regIndex unchanged.
C14_AcceptEffect ==
    [][(QuickDecodeStep /\ HeadValid) =>
          /\ meas' = [meas EXCEPT ![g_regIndex] = HeadValue]
          /\ g_goodFrames' = g_goodFrames + 1
          /\ g_missCount' = 0
          /\ (version = 3 => g_waiting' = 0)
          /\ UNCHANGED << g_badFrames, g_txCount, g_regIndex >>]_vars

\* C14 witness: RunQuick has just accepted a frame (no frame was ever
\* rejected): the measurement of the current register holds a value.
C14_Witness ==
    /\ quickAvail >= HT7017_RESPONSE_LEN
    /\ Len(rx) = quickAvail - HT7017_RESPONSE_LEN
    /\ g_goodFrames > 0
    /\ g_badFrames = 0
    /\ g_missCount = 0
    /\ meas[g_regIndex] # Zero

\* C15: a RunQuick decode of a checksum-invalid frame adds exactly one to
\* g_badFrames, leaves g_goodFrames, and resolves the transaction: g_waiting
\* is cleared (v3), and the next tick (here: a tick after a RunQuick decode in
\* a run that has accepted no frame) counts no miss and moves on to the next
\* register.
C15_RejectResolves ==
    [][/\ (QuickDecodeStep /\ ~HeadValid) =>
             /\ g_badFrames' = g_badFrames + 1
             /\ g_goodFrames' = g_goodFrames
             /\ (version = 3 => g_waiting' = 0)
       /\ (TickStep /\ resolved /\ g_goodFrames = 0) =>
             /\ g_missCount' = 0
             /\ g_regIndex' = NextIndex(g_regIndex)]_vars

\* C16: a tick that finds at least 4 bytes buffered for the outstanding request
\* decodes them (accepting iff the checksum matches) and counts no miss.
C16_TickResolvesFirst ==
    [][(TickStep /\ NumReq > 0 /\ ~resolved /\ Len(rx) >= HT7017_RESPONSE_LEN) =>
          /\ DecodeStep
          /\ (g_goodFrames' = g_goodFrames + 1) <=> HeadValid
          /\ g_missCount' # g_missCount + 1]_vars

\* C17: every tick transmits exactly one request frame, for the register the
\* index designates when the tick ends, and ends with g_waiting set (v3).
C17_TickAlwaysSends ==
    [][TickStep =>
          /\ SendsRequestFor(RegOf(g_regIndex'))
          /\ (version = 3 => g_waiting' = 1)]_vars

\* The latest request frame asks for the register the one before it asked for.
RetryingSame == NumReq >= 2 /\ ReqReg(NumReq) = ReqReg(NumReq - 1)

\* This step accepts a checksum-valid frame.
AcceptStep == g_goodFrames' = g_goodFrames + 1

\* C18 (v3, the revision that has g_waiting): g_waiting is 1 exactly while a
\* request has been sent and no decode has resolved it since; it is 0 after
\* Init, 1 after every request transmission and 0 after every RunQuick decode.
C18_WaitingWindow ==
    version = 3 => (g_waiting = 1 <=> (NumReq > 0 /\ ~resolved))

\* C18 witness: a request was sent and RunQuick has just decoded its response.
C18_Witness ==
    /\ version = 3
    /\ NumReq > 0
    /\ quickAvail >= HT7017_RESPONSE_LEN
    /\ resolved
    /\ g_waiting = 0

\* C19: g_missCount is 0 after every step that sends a request for a register
\* other than the previously requested one and after every step that accepts
\* a frame, and it is nonzero only while the same register is being retried.
C19_MissCountReset ==
    [][/\ (SendsRequest /\ NumReq > 0 /\ ~RetryingSame') => g_missCount' = 0
       /\ AcceptStep => g_missCount' = 0
       /\ g_missCount' # 0 => RetryingSame']_vars

\* C20: g_regIndex is an index of g_regTable in every state, and whenever it
\* changes it moves to the next entry, from the last entry to entry 0.
C20_IndexInTable ==
    /\ g_regIndex \in 0 .. REG_TABLE_SIZE - 1
    /\ [][/\ g_regIndex' \in 0 .. REG_TABLE_SIZE - 1
          /\ g_regIndex' # g_regIndex =>
                g_regIndex' = IF g_regIndex = REG_TABLE_SIZE - 1 THEN 0 ELSE g_regIndex + 1]_vars

\* C20 witness: the index is at entry 0 and the request for the last entry was
\* followed by the request for entry 0.
C20_Witness ==
    /\ g_regIndex = 0
    /\ \E k \in 2 .. NumReq :
          ReqReg(k - 1) = RegOf(REG_TABLE_SIZE - 1) /\ ReqReg(k) = RegOf(0)

\* ------------------------------------------------ the codec on sampled frames
\* A second specification for the pure decode: it starts in states the driver
\* reaches with a request for register g_regIndex outstanding and one 4-byte
\* frame buffered, and runs the same handlers from there.  The frame is a
\* valid answer for the current register with data bytes from the sample
\* below, possibly with one bit flipped, or a valid answer for another table
\* register (a response that belongs to an earlier request).
\*   v3 gets to table entry i after i rejected responses (one request each);
\*   v4 stays on entry 3 at its first tick, and gets to entry i < 3 when the
\*   device stays silent: two requests for entry 3, three for each entry
\*   before i, then the request for entry i.
\* ticks is the model's tick budget, not driver state: the sampled states sit
\* one tick before MaxTicks.
ByteSamples == {0, 127, 128, 240, 255}

\* Bit k (1..32) of a 4-byte frame flipped: bits 1..8 are D2's, least
\* significant first, 25..32 the checksum's.  k = 0 flips nothing.
FlipByte(b, bit) == IF (b \div (2 ^ bit)) % 2 = 1 THEN b - 2 ^ bit ELSE b + 2 ^ bit
FlipAt(bytes, k) ==
    IF k = 0 THEN bytes
    ELSE [j \in 1 .. 4 |-> IF j = ((k - 1) \div 8) + 1
                             THEN FlipByte(bytes[j], (k - 1) % 8) ELSE bytes[j]]

\* The requests sent before the sampled state, oldest first, as table indices.
CodecRequests(ver, idx) ==
    IF ver = 3 THEN [r \in 1 .. idx + 1 |-> r - 1]
    ELSE IF idx = REG_TABLE_SIZE - 1 THEN << REG_TABLE_SIZE - 1 >>
    ELSE [r \in 1 .. 3 * (idx + 1) |->
             IF r <= 2 THEN REG_TABLE_SIZE - 1 ELSE (r - 3) \div 3]

CodecLog(ver, idx) ==
    LET reqs == CodecRequests(ver, idx)
    IN  [k \in 1 .. 2 * Len(reqs) |->
            IF k % 2 = 1 THEN HT7017_FRAME_HEAD ELSE RegOf(reqs[k \div 2])]

CodecInit ==
    /\ version \in {3, 4}
    /\ g_regIndex \in 0 .. REG_TABLE_SIZE - 1
    /\ g_waiting = IF version = 3 THEN 1 ELSE 0
    /\ g_readyToSend = IF version = 3 THEN 0 ELSE 1
    /\ g_missCount = IF version = 4 /\ g_regIndex = REG_TABLE_SIZE - 1 THEN 1 ELSE 0
    /\ uartTx = CodecLog(version, g_regIndex)
    /\ g_txCount = Len(uartTx)
    /\ g_goodFrames = 0
    /\ g_badFrames = IF version = 3 THEN g_regIndex ELSE 0
    /\ meas = [i \in 0 .. REG_TABLE_SIZE - 1 |-> <<0, 1>>]
    /\ \E d2 \in ByteSamples, d1 \in ByteSamples, d0 \in ByteSamples, k \in 0 .. 32,
          a \in {RegOf(i) : i \in 0 .. REG_TABLE_SIZE - 1} :
          LET n == Len(uartTx) \div 2
              sent == ResponseFrame(a, <<d2, d1, d0>>, n, TRUE)
              got  == FlipAt([j \in 1 .. 4 |-> sent[j].v], k)
          IN  /\ (a = RegOf(g_regIndex) \/ k = 0)
              /\ rx = [j \in 1 .. 4 |-> [v |-> got[j], rq |-> n]]
              /\ faults = (IF version = 3 THEN g_regIndex ELSE 0) + (IF k = 0 THEN 0 ELSE 1)
              /\ envOK = (version = 3 /\ g_regIndex = 0 /\ k = 0 /\ a = RegOf(g_regIndex))
    /\ wire = << >>
    /\ pending = FALSE
    /\ ticks = MaxTicks - 1
    /\ resolved = FALSE
    /\ discarded = 0
    /\ quickUsed = (version = 3 /\ g_regIndex > 0)
    /\ quickAvail = -1

CodecNext ==
    \/ V3_RunEverySecond
    \/ V3_RunQuick
    \/ V4_RunEverySecond
    \/ V4_RunQuick

CodecSpec == CodecInit /\ [][CodecNext]_vars

\* The bytes of the frame at the head of the buffer, and the 24-bit raw value
\* they carry, D2 most significant.
HeadBytes == [j \in 1 .. 4 |-> rx[j].v]
HeadRaw == rx[1].v * 65536 + rx[2].v * 256 + rx[3].v

\* Table index of the Active Power register.
PowerIndex == IndexOf(HT7017_REG_POWER_P1)

\* raw read as 24-bit two's complement.
Signed24(raw) == IF raw >= 2 ^ 23 THEN raw - 2 ^ 24 ELSE raw

\* n / scale of table entry idx for a possibly negative n, in lowest terms.
SignedScaled(n, idx) ==
    IF n >= 0 THEN ScaledValue(n, idx)
    ELSE LET pos == ScaledValue(0 - n, idx) IN << 0 - pos[1], pos[2] >>

\* C21: an accepted Active Power frame stores the raw value read as 24-bit
\* two's complement (bit 23 set: raw - 2^24) over the scale; an accepted
\* Voltage, Current or Frequency frame stores the unsigned raw value over the scale.
C21_PowerSigned ==
    [][(DecodeStep /\ AcceptStep) =>
          meas'[g_regIndex] =
             IF g_regIndex = PowerIndex
               THEN SignedScaled(Signed24(HeadRaw), g_regIndex)
               ELSE ScaledValue(HeadRaw, g_regIndex)]_vars

\* C22: a frame D2 D1 D0 CalcChecksum(register, D2, D1, D0), decoded while that
\* register is current, is accepted, and the value stored is the one of the
\* raw value D2 * 65536 + D1 * 256 + D0, which lies in 0 .. 2^24 - 1.
C22_ChecksumRoundTrip ==
    [][(DecodeStep /\ rx[4].v = HT7017_CalcChecksum(RegOf(g_regIndex),
                                                     rx[1].v, rx[2].v, rx[3].v)) =>
          /\ AcceptStep
          /\ g_badFrames' = g_badFrames
          /\ HeadRaw \in 0 .. 2 ^ 24 - 1
          /\ meas'[g_regIndex] = ScaledValue(HeadRaw, g_regIndex)]_vars

\* C22 witness: RunQuick has just accepted a frame whose three data bytes
\* differ in weight (the stored value is neither 0 nor that of a reversed frame).
C22_Witness ==
    /\ quickAvail = HT7017_RESPONSE_LEN
    /\ g_goodFrames = 1
    /\ meas[g_regIndex] = ScaledValue(128 * 65536 + 240, g_regIndex)

\* C23: HT7017_CalcChecksum(reg, d2, d1, d0) = 255 - ((0x6A + reg + d2 + d1 + d0)
\* mod 256) for the buffered data bytes and every sampled reg, and the register
\* the decode checks against is the one of the latest request frame the driver
\* sent, behind the header 0x6A.
C23_ChecksumFormula ==
    /\ Len(rx) >= 3 =>
          \A reg \in ByteSamples \cup {RegOf(i) : i \in 0 .. REG_TABLE_SIZE - 1} :
             HT7017_CalcChecksum(reg, rx[1].v, rx[2].v, rx[3].v) =
                255 - ((106 + reg + rx[1].v + rx[2].v + rx[3].v) % 256)
    /\ NumReq > 0 =>
          /\ uartTx[2 * NumReq - 1] = 106
          /\ ReqReg(NumReq) = RegOf(g_regIndex)

\* C23 witness: RunQuick has just accepted the frame FF FF FF, whose sum
\* overflows a byte, on the checksum the function gives for the requested register.
C23_Witness ==
    /\ quickAvail = HT7017_RESPONSE_LEN
    /\ g_goodFrames = 1
    /\ 106 + RegOf(g_regIndex) + 3 * 255 > 511
    /\ meas[g_regIndex] = ScaledValue(255 * 65536 + 255 * 256 + 255, g_regIndex)

\* A frame that differs in exactly one bit from a frame with a valid checksum.
OneBitOff(bytes) ==
    \E k \in 1 .. 32 :
       LET b == FlipAt(bytes, k) IN b[4] = ExpectedCS(b[1], b[2], b[3])

\* C24: a decoded frame that is one bit flip away from a checksum-valid frame
\* fails validation: it is counted as a bad frame and nothing is accepted.
C24_SingleBitDetected ==
    [][(DecodeStep /\ OneBitOff(HeadBytes)) =>
          /\ g_badFrames' = g_badFrames + 1
          /\ g_goodFrames' = g_goodFrames
          /\ meas' = meas]_vars

\* C24 witness: RunQuick has just rejected a sampled frame that had a bit
\* flipped.
C24_Witness ==
    /\ version = 4
    /\ quickAvail = HT7017_RESPONSE_LEN
    /\ faults = 1
    /\ g_badFrames = 1
    /\ g_goodFrames = 0
    /\ rx = << >>

\* The register addresses of the table.
TableAddresses == {RegOf(i) : i \in 0 .. REG_TABLE_SIZE - 1}

\* C25: the only bytes ever transmitted are request frames sent by a tick, each
\* exactly two bytes: 0x6A, then the address of the register the index
\* designates, which has bit 7 clear and is one of 0x08, 0x06, 0x0A, 0x09.
C25_RequestEncoding ==
    [][uartTx' # uartTx =>
          /\ TickStep
          /\ uartTx' = uartTx \o << 106, RegOf(g_regIndex') >>
          /\ RegOf(g_regIndex') < 128
          /\ RegOf(g_regIndex') \in {8, 6, 10, 9}]_vars

\* C25 witness: requests for all four table addresses have been transmitted.
C25_Witness ==
    /\ NumReq = REG_TABLE_SIZE
    /\ {ReqReg(k) : k \in 1 .. NumReq} = TableAddresses

\* C26: the tx counter equals the number of request frames sent since Init.
C26_TxCountsFrames == g_txCount = NumReq

\* C27: the decode inside RunEverySecond and the decode inside RunQuick apply
\* one and the same function of the current register and the 4 head bytes:
\* accept iff the checksum matches, the same measurement, g_goodFrames and
\* g_badFrames updates, and exactly those 4 bytes consumed by the decode (the
\* tick then discards what is buffered behind them when it sends).
C27_SameDecode ==
    [][DecodeStep =>
          /\ Len(rx) >= HT7017_RESPONSE_LEN
          /\ meas' = IF HeadValid THEN [meas EXCEPT ![g_regIndex] = HeadValue] ELSE meas
          /\ g_goodFrames' = IF HeadValid THEN g_goodFrames + 1 ELSE g_goodFrames
          /\ g_badFrames' = IF HeadValid THEN g_badFrames ELSE g_badFrames + 1
          /\ IF TickStep
                THEN rx' = << >> /\ discarded' = Len(rx) - HT7017_RESPONSE_LEN
                ELSE rx' = SubSeq(rx, HT7017_RESPONSE_LEN + 1, Len(rx))]_vars

\* C27 witness: the tick has decoded and accepted the sampled frame itself
\* (RunQuick did not run on it), and RunQuick accepts the same frames (C22).
C27_Witness ==
    /\ version = 4
    /\ ticks = MaxTicks
    /\ ~quickUsed
    /\ g_goodFrames = 1
    /\ \E i \in 0 .. REG_TABLE_SIZE - 1 : meas[i] # Zero

\* C29: the first request frame transmitted after Init is 0x6A 0x08 (Voltage).
C29_FirstRequestVoltage ==
    NumReq >= 1 => (uartTx[1] = 106 /\ ReqReg(1) = 8)

\* C30 (v3, the revision with g_readyToSend): nothing is transmitted while
\* g_readyToSend is 0, g_readyToSend is 0 exactly from the transmission of a
\* request until RunQuick decodes a 4-byte response, and so at most one
\* request is in flight: the requests sent exceed the responses decoded by at most one.
C30_OneInFlight ==
    [][version = 3 =>
          /\ g_readyToSend = 0 => uartTx' = uartTx
          /\ (g_readyToSend' = 0) <=> (NumReq' > 0 /\ ~resolved')
          /\ NumReq' <= g_goodFrames' + g_badFrames' + 1]_vars

\* C30 witness: a tick has come and gone with g_readyToSend at 0, and only the
\* one request is out.
C30_Witness ==
    /\ version = 3
    /\ g_readyToSend = 0
    /\ ticks >= 2
    /\ NumReq = g_goodFrames + g_badFrames + 1

\* ------------------------------------------------------- driver restarts
\* HT7017_Init called again in the same process (the driver is stopped and
\* started): it re-initialises the UART and resets the index, the flags and
\* the counters.  g_voltage, g_current, g_power and g_freq are set by their
\* static initialisers only; HT7017_Init does not assign them.
\* The transmit log and the bookkeeping about the latest request restart with
\* the driver; the tick and fault budgets do not.
HT7017_Init ==
    /\ g_regIndex' = REG_TABLE_SIZE - 1
    /\ g_waiting' = 0
    /\ g_readyToSend' = 1
    /\ g_missCount' = 0
    /\ g_txCount' = 0
    /\ g_goodFrames' = 0
    /\ g_badFrames' = 0
    /\ rx' = << >>
    /\ uartTx' = << >>
    /\ pending' = FALSE
    /\ resolved' = FALSE
    /\ discarded' = 0
    /\ quickAvail' = -1
    /\ envOK' = FALSE
    /\ UNCHANGED << version, meas, wire, faults, ticks, quickUsed >>

LifeNext == Next \/ HT7017_Init

LifeSpec == Init /\ [][LifeNext]_vars

\* C28: after any call of HT7017_Init and before any frame is accepted, all
\* four measurements read zero.
C28_ZeroUntilAccepted ==
    g_goodFrames = 0 => \A i \in 0 .. REG_TABLE_SIZE - 1 : meas[i] = Zero

C34_MissCountBounded ==
    g_missCount \in 0 .. MAX_RETRIES - 1

\* C34 witness: three ticks have missed in a row with nothing ever decoded;
\* the third gave up on the last table entry and left the count at 0.
C34_Witness ==
    /\ version = 4
    /\ ticks = 3
    /\ g_goodFrames + g_badFrames = 0
    /\ g_regIndex = 0
    /\ g_missCount = 0

\* The frame at the head of the buffer carries the checksum of a table
\* register other than the current one.
ValidForOther ==
    \E a \in TableAddresses \ {RegOf(g_regIndex)} :
       rx[4].v = 255 - ((106 + a + rx[1].v + rx[2].v + rx[3].v) % 256)

\* C33: a frame whose checksum is valid for one table register, decoded while
\* another table register is current, fails validation: it is counted as a
\* bad frame, nothing is accepted and no measurement changes.
C33_WrongRegisterRejected ==
    [][(DecodeStep /\ ValidForOther) =>
          /\ g_badFrames' = g_badFrames + 1
          /\ g_goodFrames' = g_goodFrames
          /\ meas' = meas]_vars

\* C33 witness: RunQuick has just rejected a frame that had no bit flipped:
\* a valid answer for another register.
C33_Witness ==
    /\ version = 4
    /\ quickAvail = HT7017_RESPONSE_LEN
    /\ faults = 0
    /\ g_badFrames = 1
    /\ g_goodFrames = 0
    /\ rx = << >>

\* ------------------------------------------- unsolicited bytes at start-up
\* The driver starts while the device is already talking: the state
\* HT7017_Init leaves, with MaxWire unsolicited bytes on their way to the UART.
BurstInit ==
    /\ version \in {3, 4}
    /\ g_regIndex = REG_TABLE_SIZE - 1
    /\ g_waiting = 0
    /\ g_readyToSend = 1
    /\ g_missCount = 0
    /\ g_txCount = 0
    /\ g_goodFrames = 0
    /\ g_badFrames = 0
    /\ meas = [i \in 0 .. REG_TABLE_SIZE - 1 |-> <<0, 1>>]
    /\ rx = << >>
    /\ uartTx = << >>
    /\ \E b \in NoiseBytes : wire = [j \in 1 .. MaxWire |-> [v |-> b, rq |-> 0]]
    /\ pending = FALSE
    /\ faults = 0
    /\ ticks = 0
    /\ resolved = FALSE
    /\ discarded = 0
    /\ quickUsed = FALSE
    /\ quickAvail = -1
    /\ envOK = FALSE

BurstSpec == BurstInit /\ [][Next]_vars

\* C32: at most one response is resolved per request: the frames decoded,
\* g_goodFrames + g_badFrames, never exceed the request frames sent since Init.
C32_OneDecodePerRequest ==
    g_goodFrames + g_badFrames <= NumReq

====
